---- MODULE Spec2Model ----
(***************************************************************************)
(* bull-board-docker, src/src/index.js: queue discovery from the redis key  *)
(* space at startup (the async IIFE, lines 52-75) and the bulk reset        *)
(* endpoint (cleanAllQueuesHandler, lines 114-133).                         *)
(*                                                                          *)
(* Strings are sequences of one-character strings, so that the regex        *)
(* replace, the glob match and the default sort are computed and not        *)
(* assumed.  Node runs one callback at a time: every action below is one    *)
(* run-to-completion segment of the code between two awaits.                *)
(***************************************************************************)
EXTENDS Integers, Sequences, FiniteSets, TLC

\* ------------------------------------------------------------------ bounds
\* Largest number of keys in the redis key space.
MaxKeys == 2
\* Largest number of requests over one run.
MaxReqs == 2
\* Largest number of ':'-separated segments of a key of the scanner's inputs.
MaxSegs == 4
\* Largest number of segments of a configured prefix of the scanner's inputs.
MaxPrefixSegs == 2
\* Largest number of keys in the key space of the runs with the login gate.
MaxAuthKeys == 1

Colon == ":"
\* Segments the keys of the scanner's inputs are made of (the empty one too).
ScanSegs == {<<>>, <<"a">>, <<"b">>}
\* Segments the configured prefixes of the scanner's inputs are made of.
PrefixSegs == {<<"a">>, <<"b">>}

\* ----------------------------------------------------------------- strings
RECURSIVE Join(_)
\* segs joined with ':' ("<prefix>:<queueName>:<suffix>")
Join(segs) ==
    IF Len(segs) = 0 THEN <<>>
    ELSE IF Len(segs) = 1 THEN segs[1]
    ELSE segs[1] \o <<Colon>> \o Join(Tail(segs))

SeqsUpTo(S, n) == UNION {[1..k -> S] : k \in 1..n}
KeysOf(segs, n) == {Join(ss) : ss \in SeqsUpTo(segs, n)}
RECURSIVE SetsUpTo(_, _)
\* the subsets of S of at most n elements
SetsUpTo(S, n) ==
    IF n = 0 THEN {{}}
    ELSE LET P == SetsUpTo(S, n - 1) IN P \cup {T \cup {x} : T \in P, x \in S}

IsPrefixOf(p, s) == Len(p) <= Len(s) /\ SubSeq(s, 1, Len(p)) = p

\* UTF-16 code unit of a character (String.prototype comparison order).
Code(c) == CASE c = "\n" -> 10 [] c = Colon -> 58 [] c = "a" -> 97 [] c = "b" -> 98

RECURSIVE StrLess(_, _)
\* s < t as Array.prototype.sort() without a comparator orders strings
StrLess(s, t) ==
    IF Len(t) = 0 THEN FALSE
    ELSE IF Len(s) = 0 THEN TRUE
    ELSE IF Code(s[1]) # Code(t[1]) THEN Code(s[1]) < Code(t[1])
    ELSE StrLess(Tail(s), Tail(t))

RECURSIVE SortDesc(_)
\* A faulty variant of SortAsc: the elements of S in descending order.
SortDesc(S) ==
    IF S = {} THEN <<>>
    ELSE LET m == CHOOSE x \in S : \A y \in S \ {x} : StrLess(y, x)
         IN  <<m>> \o SortDesc(S \ {m})

RECURSIVE SortAsc(_)
\* Array.from(set).sort(): the elements of S in ascending order
SortAsc(S) ==
    IF S = {} THEN <<>>
    ELSE LET m == CHOOSE x \in S : \A y \in S \ {x} : StrLess(x, y)
         IN  <<m>> \o SortAsc(S \ {m})

\* ----------------------------------------------------------------- scanner
\* '.' of a JavaScript regex: any character but a line terminator
Dot(c) == c \notin {"\n", "\r"}

\* The pairs (i, j) of positions of the two literal ':' of a match of
\* /^.+?:(.+?):.+?$/ on key: something before i, something between, something
\* after j, and every other character matched by '.'.
RegexMatches(key) ==
    {ij \in (1..Len(key)) \X (1..Len(key)) :
        /\ key[ij[1]] = Colon /\ key[ij[2]] = Colon
        /\ ij[1] >= 2 /\ ij[2] >= ij[1] + 2 /\ ij[2] <= Len(key) - 1
        /\ \A k \in 1..Len(key) : Dot(key[k])}

\* The match the backtracking engine finds: the first lazy quantifier takes the
\* shortest possible text, then the second one does.
RegexFirstMatch(key) ==
    LET ms == RegexMatches(key)
        i  == CHOOSE x \in {m[1] : m \in ms} : \A m \in ms : x <= m[1]
        j  == CHOOSE y \in {m[2] : m \in ms} :
                  /\ <<i, y>> \in ms
                  /\ \A m \in ms : m[1] = i => y <= m[2]
    IN  <<i, j>>

\* key.replace(/^.+?:(.+?):.+?$/, '$1'): the capture when the key matches, the
\* key unchanged when it does not
ExtractName(key) ==
    IF RegexMatches(key) = {} THEN key
    ELSE LET m == RegexFirstMatch(key) IN SubSeq(key, m[1] + 1, m[2] - 1)

\* client.keys(`${prefix}:*`): the keys of the store the glob matches
KeysMatching(st, prefix) == {k \in st : IsPrefixOf(prefix \o <<Colon>>, k)}

\* new Set(keys.map(...))
UniqKeys(ks) == {ExtractName(k) : k \in ks}

\* ------------------------------------------------------------------- state
VARIABLES
    BULL_PREFIX,  \* config.BULL_PREFIX
    config,       \* the other entries of config: BULL_VERSION, AUTH_ENABLED,
                  \* REDIS_PASSWORD, REDIS_USE_TLS
    store,        \* the keys of the redis database
    alive,        \* the node process is running
    discPc,       \* the discovery IIFE: "connect", "keys" (the await it is at),
                  \* "done" (returned) or "failed" (rejected, .catch ran)
    keys,         \* const keys, line 55
    uniqKeys,     \* const uniqKeys, line 56
    mapped,       \* the array .map() of line 57 is filling
    queueList,    \* let queueList, line 34
    boardQueues,  \* the queues createBullBoard holds (setQueues, line 71)
    console,      \* what the discovery IIFE has logged
    reqs,         \* the runs of cleanAllQueuesHandler, in arrival order
    http          \* the HTTP requests the application has dispatched, in arrival order

vars == <<BULL_PREFIX, config, store, alive, discPc, keys, uniqKeys, mapped, queueList,
          boardQueues, console, reqs, http>>

\* redisConfig, lines 17-25: the connection parameters under the key 'redis',
\* the password only when one is configured
redisConfig ==
    [redis |->
        IF config.REDIS_PASSWORD # ""
        THEN [port |-> "REDIS_PORT", host |-> "REDIS_HOST", db |-> "REDIS_DB",
              password |-> config.REDIS_PASSWORD,
              tls |-> (config.REDIS_USE_TLS = "true")]
        ELSE [port |-> "REDIS_PORT", host |-> "REDIS_HOST", db |-> "REDIS_DB",
              tls |-> (config.REDIS_USE_TLS = "true")]]

\* const options, lines 60-63: the same parameters under 'connection', and the
\* prefix when config.BULL_PREFIX is not the empty string
BullMQOptions ==
    IF BULL_PREFIX # <<>>
    THEN [connection |-> redisConfig.redis, prefix |-> BULL_PREFIX]
    ELSE [connection |-> redisConfig.redis]

\* A faulty variant of Adapter: the legacy queue is given the connection
\* parameters themselves, not redisConfig.
AdapterFlat(item) ==
    IF config.BULL_VERSION = "BULLMQ"
    THEN [adapter |-> "BullMQAdapter",
          queue |-> [name |-> item, lib |-> "bullmq", options |-> BullMQOptions]]
    ELSE [adapter |-> "BullAdapter",
          queue |-> [name |-> item, lib |-> "bull", options |-> redisConfig.redis]]

\* new BullMQAdapter(new bullmq.Queue(item, options)), line 64, or
\* new BullAdapter(new Queue(item, redisConfig)), line 67
Adapter(item) ==
    IF config.BULL_VERSION = "BULLMQ"
    THEN [adapter |-> "BullMQAdapter",
          queue |-> [name |-> item, lib |-> "bullmq", options |-> BullMQOptions]]
    ELSE [adapter |-> "BullAdapter",
          queue |-> [name |-> item, lib |-> "bull", options |-> redisConfig]]

Names(list) == [i \in 1..Len(list) |-> list[i].queue.name]

\* ---------------------------------------------------------------- discovery
\* A faulty variant of DiscoveryCatch: the callback logs and then ends the process.
DiscoveryCatchExits(err) ==
    /\ console' = Append(console, <<"Error setting up queues:", err>>)
    /\ discPc' = "failed"
    /\ alive' = FALSE

\* A faulty variant of DiscoveryCatch: the callback logs and starts the pass again.
DiscoveryCatchRetries(err) ==
    /\ console' = Append(console, <<"Error setting up queues:", err>>)
    /\ discPc' = "connect"
    /\ alive' = TRUE

\* The callback of .catch, lines 73-75: the rejection is logged, nothing rethrown.
DiscoveryCatch(err) ==
    /\ console' = Append(console, <<"Error setting up queues:", err>>)
    /\ discPc' = "failed"
    /\ alive' = TRUE

\* .map(item => new ...Adapter(...)), lines 57-69, over the sorted names when the
\* constructor throws for the names in bad: the adapters built before the first
\* throw, and whether it threw.
MapAdapters(names, bad) ==
    LET throwing == {i \in 1..Len(names) : names[i] \in bad}
        stop == IF throwing = {} THEN Len(names) + 1
                ELSE CHOOSE i \in throwing : \A k \in throwing : i <= k
    IN  [built |-> [i \in 1..(stop - 1) |-> Adapter(names[i])],
         threw |-> throwing # {}]

\* A faulty variant of AssignQueueList: the adapters are pushed onto queueList
\* one by one as they are built.
AssignQueueListInPlace(old, m) == m.built

\* queueList = ...map(...), line 57: assigned only when map returned
AssignQueueList(old, m) == IF m.threw THEN old ELSE m.built

\* await client.connect() resolves, line 53; client.keys is called, line 55
ConnectResolves ==
    /\ alive /\ discPc = "connect"
    /\ discPc' = "keys"
    /\ UNCHANGED <<BULL_PREFIX, config, http, store, alive, keys, uniqKeys, mapped, queueList,
                   boardQueues, console, reqs>>

\* await client.connect() rejects
ConnectRejects ==
    /\ alive /\ discPc = "connect"
    /\ DiscoveryCatch("connect")
    /\ UNCHANGED <<BULL_PREFIX, config, http, store, keys, uniqKeys, mapped, queueList,
                   boardQueues, reqs>>

\* await client.keys(...) rejects
KeysRejects ==
    /\ alive /\ discPc = "keys"
    /\ DiscoveryCatch("keys")
    /\ UNCHANGED <<BULL_PREFIX, config, http, store, keys, uniqKeys, mapped, queueList,
                   boardQueues, reqs>>

\* await client.keys(...) resolves: lines 55-72 run to the end without another
\* await.  bad: the names the queue constructor throws for; sqThrows: setQueues
\* throws.
KeysResolves ==
    /\ alive /\ discPc = "keys"
    /\ \E bad \in SUBSET UniqKeys(KeysMatching(store, BULL_PREFIX)), sqThrows \in BOOLEAN :
        LET ks == KeysMatching(store, BULL_PREFIX)
            uq == UniqKeys(ks)
            m  == MapAdapters(SortAsc(uq), bad)
            ql == AssignQueueList(queueList, m)
        IN  /\ keys' = ks
            /\ uniqKeys' = uq
            /\ mapped' = m.built
            /\ queueList' = ql
            /\ IF m.threw
               THEN /\ DiscoveryCatch("construct")
                    /\ UNCHANGED boardQueues
               ELSE IF sqThrows
               THEN /\ DiscoveryCatch("setQueues")
                    /\ UNCHANGED boardQueues
               ELSE /\ boardQueues' = ql
                    /\ console' = Append(console, <<"done!">>)
                    /\ discPc' = "done"
                    /\ UNCHANGED alive
    /\ UNCHANGED <<BULL_PREFIX, config, http, store, reqs>>

\* -------------------------------------------------------------- bulk reset
\* What a failing obliterate throws or rejects with: an Error (it has a
\* message), a value with no message property (a string, a plain object), or
\* null / undefined.
Rejections == {[kind |-> "Error", message |-> "boom"],
               [kind |-> "noMessage"],
               [kind |-> "nullish"]}

Undefined == "undefined"
TypeErrorMessage == "Cannot read properties of undefined (reading 'message')"

\* err.message: reading a property of null or undefined throws a TypeError
MessageThrows(err) == err.kind = "nullish"
Message(err) == IF err.kind = "Error" THEN err.message ELSE Undefined

\* res.json({ success: true, results }), line 129
JsonSuccess(results) == [status |-> 200, success |-> TRUE, results |-> results]
\* res.status(500).json({ success: false, error: err.message }), line 131
JsonFailure(message) == [status |-> 500, success |-> FALSE, error |-> message]

\* A faulty variant of PushSuccess: the outcome is put in front of the earlier ones.
PushSuccessFront(results, queueName) ==
    <<[queue |-> queueName, status |-> "success"]>> \o results

\* results.push({ queue: queueName, status: 'success' }), line 123
PushSuccess(results, queueName) ==
    Append(results, [queue |-> queueName, status |-> "success"])

\* results.push({ queue: queueName, status: 'error', error: err.message }), line 125
PushError(results, queueName, err) ==
    Append(results, [queue |-> queueName, status |-> "error", error |-> Message(err)])

\* The outer catch, lines 130-132: the handler ends with the 500 response.
OuterCatch(q, message) ==
    [q EXCEPT !.pc = "done", !.sent = Append(@, JsonFailure(message))]

\* A faulty variant of NextIteration: the loop runs one position past the end of
\* the array, where queueAdapter is undefined and reading queueAdapter.queue throws.
NextIterationPastEnd(q) ==
    IF q.idx + 1 <= Len(q.list)
    THEN [q EXCEPT !.pc = "await", !.idx = q.idx + 1,
                   !.calls = Append(@, q.list[q.idx + 1].queue.name)]
    ELSE OuterCatch(q, TypeErrorMessage)

\* A faulty variant of NextIteration: obliterate is called on every remaining
\* queue of the array at once and only the first of the calls is awaited.
NextIterationAllAtOnce(q) ==
    IF q.idx + 1 <= Len(q.list)
    THEN [q EXCEPT !.pc = "await", !.idx = q.idx + 1,
                   !.calls = @ \o [i \in 1..(Len(q.list) - Len(@)) |->
                                      q.list[Len(q.calls) + i].queue.name]]
    ELSE [q EXCEPT !.pc = "done", !.sent = Append(@, JsonSuccess(q.results))]

\* for (const queueAdapter of queueList), lines 117-129, entered at position
\* q.idx + 1 of the array being iterated: either the next queue's obliterate is
\* called and awaited, or the loop is over and the response is sent.
NextIteration(q) ==
    IF q.idx + 1 <= Len(q.list)
    THEN [q EXCEPT !.pc = "await", !.idx = q.idx + 1,
                   !.calls = Append(@, q.list[q.idx + 1].queue.name)]
    ELSE [q EXCEPT !.pc = "done", !.sent = Append(@, JsonSuccess(q.results))]

\* The handler is entered, lines 114-117: results is a new array, the loop
\* takes the array queueList holds now.  A request is a record of
\*   pc       "await" (at the await of line 122) or "done" (returned),
\*   list     the array the for...of iterates,
\*   idx      the position in list of the queue whose obliterate is awaited,
\*   results  const results,
\*   sent     the responses written to res,
\* and, kept for the properties only,
\*   at       discPc when the request arrived,
\*   calls    the names of the queues obliterate was called on, in order,
\*   settled  how each of those calls ended.
HandlerEntry(list, at) ==
    NextIteration([pc |-> "entry", at |-> at, list |-> list, idx |-> 0,
                   results |-> <<>>, calls |-> <<>>, settled |-> <<>>,
                   sent |-> <<>>])

\* await queue.obliterate(...) has resolved, line 123, and the loop goes on
OnResolved(q) ==
    NextIteration([q EXCEPT !.results = PushSuccess(@, q.list[q.idx].queue.name),
                            !.settled = Append(@, "resolved")])

\* await queue.obliterate(...) has thrown err, lines 124-126, and the loop goes
\* on, unless reading err.message throws in turn, which the outer catch gets
OnRejected(q, err) ==
    LET s == [q EXCEPT !.settled = Append(@, err.kind)]
    IN  IF MessageThrows(err)
        THEN OuterCatch(s, TypeErrorMessage)
        ELSE NextIteration([s EXCEPT !.results =
                               PushError(@, q.list[q.idx].queue.name, err)])

\* A POST to the endpoint arrives and cleanAllQueuesHandler runs to its first
\* await (or, over an empty list, to its response).
ResetRequest ==
    /\ alive /\ Len(reqs) < MaxReqs
    /\ reqs' = Append(reqs, HandlerEntry(queueList, discPc))
    /\ UNCHANGED <<BULL_PREFIX, config, http, store, alive, discPc, keys, uniqKeys, mapped,
                   queueList, boardQueues, console>>

\* The obliterate call request r awaits resolves.
ObliterateResolves(r) ==
    /\ alive /\ reqs[r].pc = "await"
    /\ reqs' = [reqs EXCEPT ![r] = OnResolved(@)]
    /\ UNCHANGED <<BULL_PREFIX, config, http, store, alive, discPc, keys, uniqKeys, mapped,
                   queueList, boardQueues, console>>

\* A faulty variant of ObliterateRejects: the queue whose clear failed is taken
\* out of queueList.
ObliterateRejectsDropsQueue(r) ==
    /\ alive /\ reqs[r].pc = "await"
    /\ \E err \in Rejections : reqs' = [reqs EXCEPT ![r] = OnRejected(@, err)]
    /\ queueList' = SelectSeq(queueList,
                        LAMBDA a : a.queue.name # reqs[r].list[reqs[r].idx].queue.name)
    /\ UNCHANGED <<BULL_PREFIX, config, http, store, alive, discPc, keys, uniqKeys,
                   mapped, boardQueues, console>>

\* The obliterate call request r awaits rejects.  A call that throws at once is
\* caught by the same try: it is this step taken right after the call.
ObliterateRejects(r) ==
    /\ alive /\ reqs[r].pc = "await"
    /\ \E err \in Rejections : reqs' = [reqs EXCEPT ![r] = OnRejected(@, err)]
    /\ UNCHANGED <<BULL_PREFIX, config, http, store, alive, discPc, keys, uniqKeys, mapped,
                   queueList, boardQueues, console>>

\* ----------------------------------------------------------------- routing
\* config.HOME_PAGE and config.LOGIN_PAGE, as sequences of path segments, and
\* the path of the endpoint below them
HOME_PAGE == <<"home">>
LOGIN_PAGE == <<"login">>
CleanAllPath == <<"api", "clean-all-queues">>

\* The layers of the application that can end a request, in the order they are
\* registered, lines 140-149 and 238-242.  The layers registered before them
\* (morgan, the proxy path, session, passport, bodyParser) all call next().
Layers ==
    (IF config.AUTH_ENABLED
     THEN <<[method |-> "USE", path |-> LOGIN_PAGE, chain |-> <<"authRouter">>]>>
     ELSE <<>>)
    \o <<[method |-> "POST", path |-> HOME_PAGE \o CleanAllPath,
          chain |-> <<"cleanAllQueuesHandler">>],
         [method |-> "POST", path |-> CleanAllPath,
          chain |-> <<"cleanAllQueuesHandler">>],
         [method |-> "USE", path |-> HOME_PAGE,
          chain |-> IF config.AUTH_ENABLED
                    THEN <<"ensureLoggedIn", "injectButtonMiddleware", "router">>
                    ELSE <<"injectButtonMiddleware", "router">>]>>

\* app.use(path, ...) takes every method on path and below, app.post(path, ...)
\* a POST on that very path.
LayerMatches(layer, method, path) ==
    IF layer.method = "USE"
    THEN IsPrefixOf(layer.path, path)
    ELSE layer.method = method /\ layer.path = path

\* The handlers of the layers a request matches, in registration order
RECURSIVE Chain(_, _, _)
Chain(layers, method, path) ==
    IF layers = <<>> THEN <<>>
    ELSE (IF LayerMatches(Head(layers), method, path) THEN Head(layers).chain ELSE <<>>)
         \o Chain(Tail(layers), method, path)

\* The handlers are run in turn until one ends the request: ensureLoggedIn
\* redirects a request with no logged-in user to the login page and calls next()
\* for the others, injectButtonMiddleware always calls next(), a router and
\* cleanAllQueuesHandler answer.
RECURSIVE RunChain(_, _)
RunChain(chain, loggedIn) ==
    IF chain = <<>> THEN "notFound"
    ELSE CASE Head(chain) = "ensureLoggedIn" ->
                  IF loggedIn THEN RunChain(Tail(chain), loggedIn) ELSE "redirect"
           [] Head(chain) = "injectButtonMiddleware" -> RunChain(Tail(chain), loggedIn)
           [] OTHER -> Head(chain)

Dispatch(method, path, loggedIn) == RunChain(Chain(Layers, method, path), loggedIn)

\* The paths requests are sent to: the two registered for the endpoint, a page
\* of the dashboard, and the login page
RequestPaths == {HOME_PAGE \o CleanAllPath, CleanAllPath, HOME_PAGE \o <<"queue">>, LOGIN_PAGE}

\* An HTTP request arrives, from a client that is logged in or not, and is
\* dispatched; if it reaches cleanAllQueuesHandler the handler runs to its
\* first await (or, over an empty list, to its response).  http records the
\* request, the handler that ended it, and its position in reqs if it has one.
HttpRequest ==
    /\ alive /\ Len(http) < MaxReqs
    /\ \E method \in {"GET", "POST"}, path \in RequestPaths, loggedIn \in BOOLEAN :
          LET endedBy == Dispatch(method, path, loggedIn)
          IN  /\ reqs' = IF endedBy = "cleanAllQueuesHandler"
                         THEN Append(reqs, HandlerEntry(queueList, discPc))
                         ELSE reqs
              /\ http' = Append(http, [method |-> method, path |-> path,
                                       loggedIn |-> loggedIn, endedBy |-> endedBy,
                                       req |-> IF endedBy = "cleanAllQueuesHandler"
                                               THEN Len(reqs) + 1 ELSE 0])
    /\ UNCHANGED <<BULL_PREFIX, config, store, alive, discPc, keys, uniqKeys, mapped,
                   queueList, boardQueues, console>>

\* ------------------------------------------------------------ specifications
\* The keys the running system's key space is drawn from, after the example of
\* the scanner's contract: two keys of queue "a", one key of queue "b", and one
\* key of two segments only.
MainKeys(prefix) ==
    {Join(<<prefix, <<"a">>, <<"a">>>>), Join(<<prefix, <<"a">>, <<"b">>>>),
     Join(<<prefix, <<"b">>, <<"a">>>>), Join(<<prefix, <<"b">>>>)}

Start ==
    /\ alive = TRUE
    /\ discPc = "connect"
    /\ keys = {}
    /\ uniqKeys = {}
    /\ mapped = <<>>
    /\ queueList = <<>>
    /\ boardQueues = <<>>
    /\ console = <<>>
    /\ reqs = <<>>
    /\ http = <<>>

Init ==
    /\ BULL_PREFIX = <<"b">>
    /\ config = [BULL_VERSION |-> "BULLMQ", AUTH_ENABLED |-> FALSE,
                 REDIS_PASSWORD |-> "", REDIS_USE_TLS |-> "false"]
    /\ store \in SetsUpTo(MainKeys(BULL_PREFIX), MaxKeys)
    /\ Start

Next ==
    \/ ConnectResolves
    \/ ConnectRejects
    \/ KeysRejects
    \/ KeysResolves
    \/ ResetRequest
    \/ \E r \in 1..Len(reqs) : ObliterateResolves(r)
    \/ \E r \in 1..Len(reqs) : ObliterateRejects(r)

Spec == Init /\ [][Next]_vars

\* The scanner alone, lines 55-56, over every key space and prefix of the bounds:
\* the reply of client.keys and the set of names made of it.
Scan ==
    /\ alive /\ discPc = "keys"
    /\ keys' = KeysMatching(store, BULL_PREFIX)
    /\ uniqKeys' = UniqKeys(keys')
    /\ discPc' = "scanned"
    /\ UNCHANGED <<BULL_PREFIX, config, http, store, alive, mapped, queueList, boardQueues,
                   console, reqs>>

ScanInit ==
    /\ BULL_PREFIX \in KeysOf(PrefixSegs, MaxPrefixSegs)
    /\ config = [BULL_VERSION |-> "BULLMQ", AUTH_ENABLED |-> FALSE,
                 REDIS_PASSWORD |-> "", REDIS_USE_TLS |-> "false"]
    /\ store \in SetsUpTo(KeysOf(ScanSegs, MaxSegs), MaxKeys)
    /\ alive = TRUE
    /\ discPc = "keys"
    /\ keys = {}
    /\ uniqKeys = {}
    /\ mapped = <<>>
    /\ queueList = <<>>
    /\ boardQueues = <<>>
    /\ console = <<>>
    /\ reqs = <<>>
    /\ http = <<>>

ScanNext == Scan

ScanSpec == ScanInit /\ [][ScanNext]_vars

\* The key prefix of a queue of either library when its options name none
DefaultPrefix == <<"b", "u", "l", "l">>

\* Discovery alone, lines 52-75, under every engine version, with and without a
\* password and TLS, and under the queue libraries' default prefix and another.

FactoryInit ==
    /\ BULL_PREFIX \in {DefaultPrefix, <<"b">>}
    /\ config \in [BULL_VERSION : {"BULLMQ", "BULL"}, AUTH_ENABLED : {FALSE},
                    REDIS_PASSWORD : {"", "secret"}, REDIS_USE_TLS : {"true", "false"}]
    /\ store \in SetsUpTo(MainKeys(BULL_PREFIX), MaxKeys)
    /\ Start

FactoryNext ==
    \/ ConnectResolves
    \/ ConnectRejects
    \/ KeysRejects
    \/ KeysResolves

FactorySpec == FactoryInit /\ [][FactoryNext]_vars

\* The whole application with the login gate on or off: discovery, requests of
\* every kind, and the resets they start.
AuthInit ==
    /\ BULL_PREFIX = <<"b">>
    /\ config \in [BULL_VERSION : {"BULLMQ"}, AUTH_ENABLED : BOOLEAN,
                    REDIS_PASSWORD : {""}, REDIS_USE_TLS : {"false"}]
    /\ store \in SetsUpTo(MainKeys(BULL_PREFIX), MaxAuthKeys)
    /\ Start

AuthNext ==
    \/ ConnectResolves
    \/ ConnectRejects
    \/ KeysRejects
    \/ KeysResolves
    \/ HttpRequest
    \/ \E r \in 1..Len(reqs) : ObliterateResolves(r)
    \/ \E r \in 1..Len(reqs) : ObliterateRejects(r)

AuthSpec == AuthInit /\ [][AuthNext]_vars

\* -------------------------------------------------------------- properties
Range(f) == {f[i] : i \in DOMAIN f}
Finished(q) == q.pc = "done"

\* C1: one invocation of cleanAllQueuesHandler calls obliterate on every adapter
\* of the list it iterates, whichever calls fail and whatever they reject with.
C1_EveryQueueObliterated ==
    \A r \in 1..Len(reqs) :
        Finished(reqs[r]) => reqs[r].calls = Names(reqs[r].list)

\* C2: the response of a reset over N queues lists N outcomes, the i-th one
\* 'success' exactly when the i-th obliterate call succeeded, and otherwise
\* 'error' with the failure's message.
C2_OneOutcomePerQueue ==
    \A r \in 1..Len(reqs) :
        Finished(reqs[r]) =>
            /\ Len(reqs[r].sent) = 1
            /\ reqs[r].sent[1].success
            /\ LET res == reqs[r].sent[1].results
               IN  /\ Len(res) = Len(reqs[r].list)
                   /\ \A i \in 1..Len(res) :
                        /\ res[i].queue = reqs[r].list[i].queue.name
                        /\ res[i].status = "success" <=> reqs[r].settled[i] = "resolved"
                        /\ res[i].status # "success" =>
                              /\ res[i].status = "error"
                              /\ "error" \in DOMAIN res[i]

\* The list a complete discovery pass makes of the names it found.
CompleteList ==
    LET sorted == SortAsc(uniqKeys) IN [i \in 1..Len(sorted) |-> Adapter(sorted[i])]

\* C3: queueList, and the array any reset iterates, is the initial empty list or
\* the complete list of the discovery pass, never a part of it.
C3_RegistryAtomic ==
    LET complete == CompleteList
    IN  /\ queueList \in {<<>>, complete}
        /\ \A r \in 1..Len(reqs) : reqs[r].list \in {<<>>, complete}

\* C3 witness: one reset ran before discovery completed and saw the empty list,
\* another ran after it and saw the whole list of two queues.
C3_Witness ==
    \E r1, r2 \in 1..Len(reqs) :
        /\ reqs[r1].at \in {"connect", "keys"} /\ reqs[r1].list = <<>>
        /\ reqs[r2].at = "done" /\ reqs[r2].list = queueList
        /\ Len(queueList) = 2 /\ Cardinality(keys) = 2

\* C4: the i-th outcome a reset records, and the i-th entry of the results it
\* answers with, names the i-th adapter of the list it iterated.
C4_OutcomeOrder ==
    \A r \in 1..Len(reqs) :
        /\ \A i \in 1..Len(reqs[r].results) :
              reqs[r].results[i].queue = reqs[r].list[i].queue.name
        /\ \A k \in 1..Len(reqs[r].sent) :
              reqs[r].sent[k].success =>
                  [i \in 1..Len(reqs[r].sent[k].results) |->
                      reqs[r].sent[k].results[i].queue] = Names(reqs[r].list)

\* C4 witness: a reset over two queues has answered, its first call having
\* failed and its second succeeded.
C4_Witness ==
    \E r \in 1..Len(reqs) :
        /\ Finished(reqs[r]) /\ Len(reqs[r].list) = 2
        /\ reqs[r].sent[1].success
        /\ reqs[r].sent[1].results[1].status = "error"
        /\ reqs[r].sent[1].results[2].status = "success"

\* C5: a reset that finds the registry empty answers {success: true, results: []}
\* at once and calls no obliterate.
C5_EmptyRegistryReset ==
    \A r \in 1..Len(reqs) :
        reqs[r].list = <<>> =>
            /\ Finished(reqs[r])
            /\ reqs[r].sent = <<JsonSuccess(<<>>)>>
            /\ reqs[r].calls = <<>>

\* C5 witness: one reset arrived before discovery completed, another after a
\* discovery that found no key.
C5_Witness ==
    \E r1, r2 \in 1..Len(reqs) :
        /\ reqs[r1].at \in {"connect", "keys"} /\ Finished(reqs[r1])
        /\ reqs[r2].at = "done" /\ Finished(reqs[r2])
        /\ keys = {} /\ console = << <<"done!">> >>

\* C6: every reset sends exactly one response, and the {success: false} one only
\* when no queue's clear has been performed and no outcome recorded.
C6_FailureOnlyBeforeAnyClear ==
    \A r \in 1..Len(reqs) :
        /\ Len(reqs[r].sent) <= 1
        /\ Finished(reqs[r]) <=> Len(reqs[r].sent) = 1
        /\ \A k \in 1..Len(reqs[r].sent) :
              ~reqs[r].sent[k].success =>
                  reqs[r].calls = <<>> /\ reqs[r].results = <<>>

\* A key shaped <prefix>:<queueName>:<suffix...>: after the prefix and its ':'
\* the name is what comes before the next ':', and something follows that ':'.
Rest(prefix, key) == SubSeq(key, Len(prefix) + 2, Len(key))
FirstColon(s) == CHOOSE i \in 1..Len(s) : s[i] = Colon /\ \A k \in 1..(i - 1) : s[k] # Colon
Shaped(prefix, key) ==
    /\ IsPrefixOf(prefix \o <<Colon>>, key)
    /\ \E i \in 2..(Len(Rest(prefix, key)) - 1) :
          Rest(prefix, key)[i] = Colon /\ \A k \in 1..(i - 1) : Rest(prefix, key)[k] # Colon
MiddleSegment(prefix, key) ==
    SubSeq(Rest(prefix, key), 1, FirstColon(Rest(prefix, key)) - 1)

\* C7: over a key space of keys shaped <prefix>:<queueName>:<suffix...>, the
\* scanner's set of names is exactly the set of the keys' queue names.
C7_ScannerExtractsMiddleSegments ==
    (discPc = "scanned" /\ \A k \in store : Shaped(BULL_PREFIX, k)) =>
        uniqKeys = {MiddleSegment(BULL_PREFIX, k) : k \in store}

\* C8: every queue name discovery puts into the registry is non-empty and holds
\* no ':'.
C8_NamesHaveNoSeparator ==
    \A i \in 1..Len(queueList) :
        /\ queueList[i].queue.name # <<>>
        /\ Colon \notin Range(queueList[i].queue.name)

\* C9: after client.connect() or client.keys() has failed the process runs on,
\* the failure is logged, queueList and the dashboard's queues stay empty, and
\* a reset is still accepted and answered with success: true and no outcomes.
C9_DiscoveryFailureNotFatal ==
    (\E e \in {"connect", "keys"} : <<"Error setting up queues:", e>> \in Range(console)) =>
        /\ alive
        /\ discPc = "failed"
        /\ Len(console) = 1
        /\ queueList = <<>>
        /\ boardQueues = <<>>
        /\ Len(reqs) < MaxReqs => ENABLED ResetRequest
        /\ \A r \in 1..Len(reqs) :
              reqs[r].at = "failed" =>
                  reqs[r].sent = <<JsonSuccess(<<>>)>> /\ reqs[r].calls = <<>>

\* C9 witness: client.keys() failed, and a reset that arrived afterwards has
\* been answered.
C9_Witness ==
    /\ console = << <<"Error setting up queues:", "keys">> >>
    /\ \E r \in 1..Len(reqs) : reqs[r].at = "failed" /\ Finished(reqs[r])

\* C10: after the discovery pass every queue whose adapter was constructed is in
\* the registry, also when the construction of another queue's adapter threw.
C10_ConstructionFailureIsolated ==
    discPc \in {"done", "failed"} => Range(mapped) \subseteq Range(queueList)

\* C11: with AUTH_ENABLED set, a request of a client that is not logged in never
\* makes cleanAllQueuesHandler call any queue's obliterate, whichever of the two
\* routes it is sent to.
C11_LoginGateBeforeReset ==
    config.AUTH_ENABLED =>
        \A h \in 1..Len(http) :
            (~http[h].loggedIn /\ http[h].req > 0) => reqs[http[h].req].calls = <<>>

\* The connection parameters are the entries of o: host, port, db and tls, and
\* password exactly when one is configured.
ConnectionParameters(o) ==
    /\ {"host", "port", "db", "tls"} \subseteq DOMAIN o
    /\ "password" \in DOMAIN o <=> config.REDIS_PASSWORD # ""

EffectivePrefix(queue) ==
    IF "prefix" \in DOMAIN queue.options THEN queue.options.prefix ELSE DefaultPrefix

\* C13: under every engine version and prefix, the queue built for a discovered
\* name works under the prefix the scanner's key pattern was made of.
C13_HandlePrefixIsScannerPrefix ==
    \A i \in 1..Len(queueList) : EffectivePrefix(queueList[i].queue) = BULL_PREFIX

\* C14: after a successful discovery pass the registry holds one adapter for
\* each distinct name the scanner made of the keys and nothing else, the names
\* strictly ascending.
C14_RegistrySortedAndExact ==
    discPc = "done" =>
        LET ns == Names(queueList)
        IN  /\ Range(ns) = {ExtractName(k) : k \in keys}
            /\ \A i \in 1..Len(ns) : queueList[i] = Adapter(ns[i])
            /\ \A i, j \in 1..Len(ns) : i < j => StrLess(ns[i], ns[j])

\* C14 witness: a successful pass over two keys has made a registry of two queues.
C14_Witness ==
    discPc = "done" /\ Len(queueList) = 2 /\ Cardinality(keys) = 2

\* C15: no step of a reset, whatever the outcome of the call it ends, changes
\* queueList or the queues the dashboard holds.
C15_ResetKeepsRegistry ==
    [][reqs' # reqs => (queueList' = queueList /\ boardQueues' = boardQueues)]_vars

\* C15 witness: a reset over the registry has ended, one of its calls having
\* succeeded and one failed, and the registry and the dashboard still hold the
\* list it iterated.
C15_Witness ==
    \E r \in 1..Len(reqs) :
        /\ Finished(reqs[r]) /\ reqs[r].list # <<>>
        /\ "resolved" \in Range(reqs[r].settled) /\ "Error" \in Range(reqs[r].settled)
        /\ queueList = reqs[r].list /\ boardQueues = reqs[r].list

\* C16: within one reset the obliterate calls are made in registry order, each
\* after the one before it has settled: at most one call is unsettled, and one
\* is exactly while the reset is at its await.
C16_OneCallInFlight ==
    \A r \in 1..Len(reqs) :
        LET q == reqs[r]
            inFlight == Len(q.calls) - Len(q.settled)
        IN  /\ inFlight \in {0, 1}
            /\ inFlight = 1 <=> q.pc = "await"
            /\ q.calls = SubSeq(Names(q.list), 1, Len(q.calls))

\* C16 witness: a reset awaits its second call, the first having failed.
C16_Witness ==
    \E r \in 1..Len(reqs) :
        reqs[r].pc = "await" /\ reqs[r].idx = 2 /\ reqs[r].settled = <<"noMessage">>

\* C17: a started reset is running or completed, and its response is sent only
\* once every queue of its list has been processed.
C17_RespondsAfterEveryQueue ==
    \A r \in 1..Len(reqs) :
        /\ reqs[r].pc \in {"await", "done"}
        /\ reqs[r].sent # <<>> =>
              Finished(reqs[r]) /\ Len(reqs[r].settled) = Len(reqs[r].list)

\* C18: queueList changes only in the discovery pass's assignment, from the
\* empty list, and once the pass has ended, well or not, neither its position
\* nor its reply nor queueList changes again.
C18_DiscoveryRunsOnce ==
    [][/\ queueList' # queueList =>
            (queueList = <<>> /\ discPc = "keys" /\ console = <<>>)
       /\ (console # <<>> \/ discPc \in {"done", "failed"}) =>
            (discPc' = discPc /\ queueList' = queueList /\ keys' = keys)]_vars

\* C18 witness: the pass failed after it had assigned queueList, and a request
\* has been handled since.
C18_Witness ==
    discPc = "failed" /\ queueList # <<>> /\ reqs # <<>>

\* C19: the queues the dashboard was given through setQueues are at every
\* point the queues of queueList.
C19_DashboardAgreesWithRegistry ==
    alive => boardQueues = queueList

\* C20: a reset that ran to its response while an earlier one was still at its
\* await answers with one outcome per queue of its list, in order, each the
\* outcome of its own call on that queue.
C20_OverlappingResetsIndependent ==
    \A r, s \in 1..Len(reqs) :
        (r < s /\ reqs[r].pc = "await" /\ Finished(reqs[s])) =>
            /\ reqs[s].sent # <<>>
            /\ reqs[s].sent[1].success
            /\ Len(reqs[s].sent[1].results) = Len(reqs[s].list)
            /\ \A i \in 1..Len(reqs[s].sent[1].results) :
                  /\ reqs[s].sent[1].results[i].queue = reqs[s].list[i].queue.name
                  /\ reqs[s].sent[1].results[i].status = "success"
                        <=> reqs[s].settled[i] = "resolved"

====
